---- MODULE Spec2Model ----
(***************************************************************************)
(* SuperNova proof driver (src/src/lib.rs) over the two R1CS               *)
(* arithmetizations of the repository: src/src/arithmetization/r1cs.rs     *)
(* ("r1cs") and src/src/arithmetization/r1cs/circuit.rs ("circuit").       *)
(*                                                                         *)
(* Scalars are a small prime field, the curve group is the cyclic group    *)
(* of order R written additively, and the Poseidon sponge is a fixed       *)
(* mixing function over the absorbed field elements.  The augmented step   *)
(* circuit keeps the rows that the source enforces explicitly              *)
(* (enforce_equal, enforce_not_equal and the rows of the user step         *)
(* circuit); the rows of the library gadgets are always satisfied by the   *)
(* honest witness generator and are left out.                              *)
(***************************************************************************)
EXTENDS Integers, Sequences, FiniteSets, TLC

\* ------------------------------------------------------------------ bounds
MaxL == 2
MaxSteps == 3
NSeeds == 2
MaxZ0 == 2
MaxU == 2
MaxA == 1
MaxGens == 3
MaxLenV == 3
MaxV == 2

\* ------------------------------------------------- fields, group, sponge
\* Fq: the field the circuits are written over.
Q == 8191
\* Fr: the scalar field of G1, and the order of the group.
R == 4099
\* The number of bits squeezed where the source squeezes 254 bits (< Fr).
HashBits == 12

RECURSIVE Pow2(_)
Pow2(n) == IF n = 0 THEN 1 ELSE 2 * Pow2(n - 1)

\* The embedding Fr -> Fq of circuit.rs (value preserving, Fr < Fq).
scalar_to_base(s) == s % Q

\* circuit.rs base_to_scalar: the low limbs, then Fr::from_bigint(..).unwrap(),
\* which is None (a panic) when the value is not below the modulus of Fr.
base_to_scalar_ok(b) == b < R
base_to_scalar(b) == b

\* ---- curve points: affine triples (x, y, infinity) over the group Z_R.
CurveY(g) == ((g * g) + 4) % Q
Identity == [x |-> 0, y |-> 0, inf |-> TRUE]
\* The identity as arkworks writes it, in the place of the literal of circuit.rs.
Sentinel_native == [x |-> 0, y |-> 0, inf |-> TRUE]
Sentinel == [x |-> 0, y |-> 1, inf |-> TRUE]
Pt(g) == IF g % R = 0 THEN Identity
         ELSE [x |-> g % R, y |-> CurveY(g % R), inf |-> FALSE]
Val(p) == IF p.inf THEN 0 ELSE p.x
\* (p + q.mul_bigint(k)).into()
AddMul(p, q, k) == Pt((Val(p) + (Val(q) * (k % R))) % R)

B2F(b) == IF b THEN 1 ELSE 0
\* The three field elements a point contributes to a native absorption.
NativeXyb(p) == <<p.x, p.y, B2F(p.inf)>>
\* to_constraint_field of the in-circuit affine point: the identity is (0, 1, true).
CircuitXyb(p) == IF p.inf THEN <<0, 1, 1>> ELSE <<p.x, p.y, 0>>

\* ---- Poseidon sponge: absorb a sequence of field elements, squeeze one.
Perm(s) == (((((s * s) % Q) * s) % Q) + (7 * s) + 11) % Q
\* The state after absorbing terms[lo..hi]: position-weighted, split in halves.
Weight(k) == ((((((37 * k) + 101) * k) + 911) * k) + 1013) % Q
RECURSIVE Absorb(_, _, _)
Absorb(terms, lo, hi) ==
    IF lo > hi THEN 0
    ELSE IF lo = hi THEN ((terms[lo] % Q) * Weight(lo)) % Q
    ELSE (Absorb(terms, lo, (lo + hi) \div 2)
          + Absorb(terms, ((lo + hi) \div 2) + 1, hi)) % Q
squeeze_native_field_elements(terms) ==
    CHOOSE h \in {Perm(Perm((Absorb(t, 1, Len(t)) + Len(t) + 1) % Q)) : t \in {terms}} :
        TRUE
\* squeeze_bits(254) read little-endian into Fr: the low bits of the squeezed element.
squeeze_bits(terms) == squeeze_native_field_elements(terms) % Pow2(HashBits)

\* ---- generators
Gen(j) == Pt((2 * j) + 1)

RECURSIVE SumTo(_, _, _)
SumTo(v, g, n) ==
    IF n = 0 THEN 0 ELSE (SumTo(v, g, n - 1) + ((v[n] % R) * Val(g[n]))) % R
\* commit over G1Affine as the arithmetizations call it: sum of v[j] * gens[j].
commit_ark(v) == Pt(SumTo(v, [j \in 1..Len(v) |-> Gen(j)], Len(v)))

\* ------------------------------------------------------------ step circuits
CircuitOf(j) == IF j % 2 = 0 THEN "cubic" ELSE "square"
Cube(x) == (((x * x) % Q) * x) % Q
StepOutput(c, x) ==
    IF c = "cubic" THEN (Cube(x) + x + 5) % Q ELSE (((x * x) % Q) + x + 5) % Q

\* ------------------------------------------------------------------ shapes
\* Columns follow arkworks' ConstraintMatrices: 0 is the constant one, then the
\* instance variables (the step circuit's input x, then the public IO hash), then
\* the witness variables.  A row is a sequence of <<coefficient, column>> pairs.
NumInstance == 3
Neg1 == Q - 1
One == <<<<1, 0>>>>

\* Witness variables the augmented circuit allocates before the step circuit runs:
\* r1cs.rs keeps latest_hash and comp_hash, circuit.rs also is_base_case and
\* non_base_case.
NumFixed(impl) == IF impl = "r1cs" THEN 2 ELSE 4
ColLatest == NumInstance
ColIsBase == NumInstance + 1
ColNonBase == NumInstance + 2
ColComp(impl) == NumInstance + NumFixed(impl) - 1
ColSq(impl) == NumInstance + NumFixed(impl)
ColCu(impl) == NumInstance + NumFixed(impl) + 1
ColY(impl, c) == NumInstance + NumFixed(impl) + (IF c = "cubic" THEN 2 ELSE 1)

\* FpVar::enforce_equal(comp_hash, latest_hash): (comp_hash - latest_hash) * 1 = 0.
RowEnforceEqual(impl) ==
    [a |-> <<<<1, ColComp(impl)>>, <<Neg1, ColLatest>>>>, b |-> One, c |-> <<>>]
\* Boolean::enforce_not_equal(is_base_case, non_base_case): exactly one of the two.
RowEnforceNotEqual ==
    [a |-> <<<<1, ColIsBase>>, <<1, ColNonBase>>>>, b |-> One, c |-> One]
\* The step circuits of lib.rs: x.square(), x_sq.mul(x), enforce_equal(.. + 5, y).
RowsStep(impl, c) ==
    IF c = "cubic"
    THEN << [a |-> <<<<1, 1>>>>, b |-> <<<<1, 1>>>>, c |-> <<<<1, ColSq(impl)>>>>],
            [a |-> <<<<1, ColSq(impl)>>>>, b |-> <<<<1, 1>>>>, c |-> <<<<1, ColCu(impl)>>>>],
            [a |-> <<<<1, ColCu(impl)>>, <<1, 1>>, <<5, 0>>, <<Neg1, ColY(impl, c)>>>>,
             b |-> One, c |-> <<>>] >>
    ELSE << [a |-> <<<<1, 1>>>>, b |-> <<<<1, 1>>>>, c |-> <<<<1, ColSq(impl)>>>>],
            [a |-> <<<<1, ColSq(impl)>>, <<1, 1>>, <<5, 0>>, <<Neg1, ColY(impl, c)>>>>,
             b |-> One, c |-> <<>>] >>
RowsOf(impl, c) ==
    (IF impl = "r1cs" THEN <<RowEnforceEqual(impl)>>
     ELSE <<RowEnforceEqual(impl), RowEnforceNotEqual>>) \o RowsStep(impl, c)

\* cs.to_matrices() of the augmented circuit around step circuit c.
to_matrices(impl, c) ==
    LET rows == RowsOf(impl, c) IN
    [num_instance_variables |-> NumInstance,
     num_witness_variables |-> ColY(impl, c) - NumInstance + 1,
     num_constraints |-> Len(rows),
     a |-> [k \in 1..Len(rows) |-> rows[k].a],
     b |-> [k \in 1..Len(rows) |-> rows[k].b],
     c |-> [k \in 1..Len(rows) |-> rows[k].c]]

empty_shape(z0) ==
    [num_instance_variables |-> Len(z0), num_witness_variables |-> 0,
     num_constraints |-> 0, a |-> <<>>, b |-> <<>>, c |-> <<>>]

\* ---- sparse matrix * vector
RECURSIVE RowDot(_, _)
RowDot(row, z) ==
    IF row = <<>> THEN 0
    ELSE ((Head(row)[1] * z[Head(row)[2] + 1]) + RowDot(Tail(row), z)) % Q
RowInRange(row, z) == \A e \in 1..Len(row) : row[e][2] + 1 <= Len(z)
MatInRange(m, z) == \A k \in 1..Len(m) : RowInRange(m[k], z)
sparse_matrix_vec_product(m, z) == [k \in 1..Len(m) |-> RowDot(m[k], z)]

\* r1cs.rs eval_r1cs: z = (u, instance, witness).
r1cs_z(s) == <<s.u>> \o s.instance \o s.witness
eval_r1cs(s) ==
    [az |-> sparse_matrix_vec_product(s.shape.a, r1cs_z(s)),
     bz |-> sparse_matrix_vec_product(s.shape.b, r1cs_z(s)),
     cz |-> sparse_matrix_vec_product(s.shape.c, r1cs_z(s))]
eval_r1cs_ok(s) ==
    /\ MatInRange(s.shape.a, r1cs_z(s))
    /\ MatInRange(s.shape.b, r1cs_z(s))
    /\ MatInRange(s.shape.c, r1cs_z(s))

\* circuit.rs r1cs_matrix_vec_product, which its callers feed z = (witness, u, instance).
circ_z(s) == s.witness \o <<s.u>> \o s.instance
r1cs_matrix_vec_product(shape, z) ==
    [az |-> sparse_matrix_vec_product(shape.a, z),
     bz |-> sparse_matrix_vec_product(shape.b, z),
     cz |-> sparse_matrix_vec_product(shape.c, z)]
r1cs_matrix_vec_product_ok(shape, z) ==
    /\ MatInRange(shape.a, z) /\ MatInRange(shape.b, z) /\ MatInRange(shape.c, z)

Min(a, b) == IF a < b THEN a ELSE b
\* A vector of ones in the place of vec![Fq::zero(); n].
Zeros_ones(n) == [k \in 1..n |-> 1]
Zeros(n) == [k \in 1..n |-> 0]
AnyNonZero(v) == \E k \in 1..Len(v) : v[k] # 0

\* ------------------------------------------- the Arithmetization methods
\* An instance-witness pair is a record
\*   [impl, shape, param, comm_witness, comm_E, comm_T, E, witness, instance,
\*    u, hash, output, circuit]
\* (param is the stored digest of r1cs.rs; circuit the step circuit the pair runs).

\* SerializableShape: the counts, then for each matrix its rows' coefficients; the
\* column indices are dropped by convert_matrix.
RECURSIVE SerRow(_)
SerRow(row) == IF row = <<>> THEN <<>> ELSE <<Head(row)[1]>> \o SerRow(Tail(row))
RECURSIVE SerMatrix(_)
SerMatrix(m) ==
    IF m = <<>> THEN <<>>
    ELSE <<Len(Head(m))>> \o SerRow(Head(m)) \o SerMatrix(Tail(m))
serialize_compressed(shape) ==
    <<shape.num_witness_variables, shape.num_instance_variables>>
    \o <<Len(shape.a)>> \o SerMatrix(shape.a)
    \o <<Len(shape.b)>> \o SerMatrix(shape.b)
    \o <<Len(shape.c)>> \o SerMatrix(shape.c)
digest(shape) == squeeze_native_field_elements(serialize_compressed(shape))

hash(s) == s.hash
witness_commitment(s) == s.comm_witness
crossterms(s) == NativeXyb(s.comm_E) \o <<s.u>>
output(s) == s.output
z0(s) == Zeros(Len(s.output))
\* params taken from the stored output as well as the shape.
params_with_output(s) == ((IF s.impl = "r1cs" THEN s.param ELSE digest(s.shape)) + (IF s.output = <<>> THEN 0 ELSE s.output[1])) % Q
params(s) == IF s.impl = "r1cs" THEN s.param ELSE digest(s.shape)

r1cs_has_crossterms(s) == AnyNonZero(s.E) \/ s.u # 1
circ_has_crossterms(s) == AnyNonZero(s.E) /\ s.u # 1
has_crossterms(s) ==
    IF s.impl = "r1cs" THEN r1cs_has_crossterms(s) ELSE circ_has_crossterms(s)

\* r1cs.rs is_satisfied: the rows of az * bz = u * cz + E; the commitment check
\* is commented out.
r1cs_is_satisfied_ok(s) == eval_r1cs_ok(s) /\ Len(s.E) >= s.shape.num_constraints
r1cs_is_satisfied(s) ==
    LET e == eval_r1cs(s) IN
    ~ \E k \in 1..s.shape.num_constraints :
         (e.az[k] * e.bz[k]) % Q # ((s.u * e.cz[k]) + s.E[k]) % Q
\* circuit.rs is_satisfied: only the lengths of the products are compared with the
\* number of constraints; the row check and the commitment check are commented out.
circ_is_satisfied_ok(s) == r1cs_matrix_vec_product_ok(s.shape, circ_z(s))
circ_is_satisfied(s) ==
    LET e == r1cs_matrix_vec_product(s.shape, circ_z(s)) IN
    ~ (\/ Len(e.az) # s.shape.num_constraints
       \/ Len(e.bz) # s.shape.num_constraints
       \/ Len(e.cz) # s.shape.num_constraints)
is_satisfied_ok(s) ==
    IF s.impl = "r1cs" THEN r1cs_is_satisfied_ok(s) ELSE circ_is_satisfied_ok(s)
is_satisfied(s) ==
    IF s.impl = "r1cs" THEN r1cs_is_satisfied(s) ELSE circ_is_satisfied(s)

\* r1cs.rs hash_terms
hash_terms(s) ==
    z0(s) \o s.output \o NativeXyb(s.comm_witness) \o NativeXyb(s.comm_E)
    \o <<s.u, s.hash>>

\* G1Affine::rand(&mut OsRng): the k-th point of the call numbered seed in the
\* stream of the run.
Rand(seed, k) == Pt(((((97 * seed) + (13 * k)) + 5) % (R - 1)) + 1)

\* ------------------------------------------------ augmented step circuit
\* cs.which_is_unsatisfied() == None over the rows kept: z = (1, instance, witness).
cs_is_satisfied(shape, instance, witness) ==
    LET z == <<1>> \o instance \o witness
        az == sparse_matrix_vec_product(shape.a, z)
        bz == sparse_matrix_vec_product(shape.b, z)
        cz == sparse_matrix_vec_product(shape.c, z)
    IN \A k \in 1..shape.num_constraints : (az[k] * bz[k]) % Q = cz[k]

\* The witness values of the user step circuit for input x: x_sq, (x_cu,) y.
StepWitness(c, x) ==
    IF c = "cubic" THEN <<(x * x) % Q, Cube(x), StepOutput(c, x)>>
    ELSE <<(x * x) % Q, StepOutput(c, x)>>

\* compute_r (the same absorption in r1cs.rs and circuit.rs): the transcript of the
\* in-circuit folding randomness, over allocated point variables.
compute_r_terms(prm, comm_W, comm_E, u, h, latest_witness, latest_hash, T) ==
    <<prm>> \o CircuitXyb(comm_W) \o CircuitXyb(comm_E) \o <<u, h>>
    \o CircuitXyb(latest_witness) \o <<latest_hash>> \o CircuitXyb(T)
compute_r(prm, comm_W, comm_E, u, h, latest_witness, latest_hash, T) ==
    squeeze_native_field_elements(
        compute_r_terms(prm, comm_W, comm_E, u, h, latest_witness, latest_hash, T))

\* r1cs.rs compute_io_hash: params, i, pc, then the terms; one full field element.
r1cs_compute_io_hash(prm, i, pc, terms) ==
    squeeze_native_field_elements(<<prm, i % Q, pc % Q>> \o terms)

\* circuit.rs compute_io_hash: the same tuple, 254 bits squeezed.
circ_io_terms(prm, i, pc, z, out, comm_W, comm_E, u, h) ==
    <<prm, i % Q, pc % Q>> \o z \o out \o CircuitXyb(comm_W) \o CircuitXyb(comm_E)
    \o <<u, h>>
circ_compute_io_hash(prm, i, pc, z, out, comm_W, comm_E, u, h) ==
    squeeze_bits(circ_io_terms(prm, i, pc, z, out, comm_W, comm_E, u, h))

\* r1cs.rs synthesize.  rE and rT are the two points drawn for comm_E and comm_T.
\* The result holds the new pair, the output written back into self, whether the
\* rows built are satisfied, and the in-circuit fold for the record.
r1cs_synthesize(self, prm, prev_terms, latest_witness, latest_hash, old_pc, new_pc, i, c, rE, rT) ==
    LET is_base_case == (i = 0)
        params_select == IF i = 1 THEN 0 ELSE prm
        io_hash == r1cs_compute_io_hash(params_select, i, old_pc, prev_terms)
        comp_hash == IF is_base_case THEN 0 ELSE io_hash
        rterms == compute_r_terms(prm, self.comm_witness, self.comm_E, self.u,
                                  self.hash, latest_witness, latest_hash, self.comm_T)
        r == compute_r(prm, self.comm_witness, self.comm_E, self.u, self.hash,
                       latest_witness, latest_hash, self.comm_T)
        W_fold == AddMul(self.comm_witness, latest_witness, r)
        E_fold == AddMul(self.comm_E, self.comm_T, r)
        u_fold == (self.u + r) % Q
        hash_fold == (self.hash + ((latest_hash * r) % Q)) % Q
        W_new == IF is_base_case THEN self.comm_witness ELSE W_fold
        E_new == IF is_base_case THEN self.comm_E ELSE E_fold
        u_new == IF is_base_case THEN self.u ELSE u_fold
        hash_new == IF is_base_case THEN latest_hash ELSE hash_fold
        new_input == IF is_base_case THEN z0(self) ELSE self.output
        out == <<StepOutput(c, new_input[1])>>
        terms == z0(self) \o out \o CircuitXyb(W_new) \o CircuitXyb(E_new)
                 \o <<u_new, hash_new>>
        h == r1cs_compute_io_hash(prm, i + 1, new_pc, terms)
        shape == to_matrices("r1cs", c)
        witness == <<latest_hash, comp_hash>> \o StepWitness(c, new_input[1])
        instance == <<new_input[1], h>>
    IN [new |-> [impl |-> "r1cs", shape |-> shape, param |-> self.param,
                 comm_witness |-> commit_ark(witness), comm_E |-> rE, comm_T |-> rT,
                 E |-> Zeros(shape.num_constraints), witness |-> witness,
                 instance |-> instance, u |-> 1, hash |-> h, output |-> <<>>,
                 circuit |-> c],
        output |-> out,
        satisfied |-> cs_is_satisfied(shape, instance, witness),
        input |-> new_input,
        io_terms |-> <<prm, (i + 1) % Q, new_pc % Q>> \o terms,
        comp_hash |-> comp_hash,
        fold |-> [r |-> r, rterms |-> rterms, W |-> W_fold, E |-> E_fold,
                  u |-> u_fold, hash |-> hash_fold]]

\* circuit.rs synthesize with create_circuit.  panics holds when the assertion
\* which_is_unsatisfied() == None fails.
circ_synthesize(self, prm, latest_witness, latest_hash_fr, old_pc, new_pc, i) ==
    LET c == self.circuit
        h0 == scalar_to_base(self.hash)
        latest_hash == scalar_to_base(latest_hash_fr)
        is_base_case == (i = 0)
        non_base_case == (h0 = 0)
        io_hash == circ_compute_io_hash(prm, i, old_pc, z0(self), self.output,
                                        self.comm_witness, self.comm_E, self.u, h0)
        comp_hash == IF is_base_case THEN 0 ELSE io_hash
        rterms == compute_r_terms(prm, self.comm_witness, self.comm_E, self.u, h0,
                                  latest_witness, latest_hash, self.comm_T)
        r == compute_r(prm, self.comm_witness, self.comm_E, self.u, h0,
                       latest_witness, latest_hash, self.comm_T)
        W_fold == AddMul(self.comm_witness, latest_witness, r)
        E_fold == AddMul(self.comm_E, self.comm_T, r)
        u_fold == (self.u + r) % Q
        hash_fold == (h0 + ((latest_hash * r) % Q)) % Q
        W_new == IF is_base_case THEN Identity ELSE W_fold
        E_new == IF is_base_case THEN Identity ELSE E_fold
        u_new == IF is_base_case THEN 1 ELSE u_fold
        hash_new == IF is_base_case THEN 0 ELSE hash_fold
        new_input == IF is_base_case THEN z0(self) ELSE self.output
        out == <<StepOutput(c, new_input[1])>>
        ioterms == circ_io_terms(prm, i + 1, new_pc, z0(self), out, W_new, E_new,
                                 u_new, hash_new)
        h == circ_compute_io_hash(prm, i + 1, new_pc, z0(self), out, W_new, E_new,
                                  u_new, hash_new)
        shape == to_matrices("circuit", c)
        witness == <<latest_hash, B2F(is_base_case), B2F(non_base_case), comp_hash>>
                   \o StepWitness(c, new_input[1])
        instance == <<new_input[1], h>>
        sat == cs_is_satisfied(shape, instance, witness)
    IN [new |-> [impl |-> "circuit", shape |-> shape, param |-> 0,
                 comm_witness |-> commit_ark(witness), comm_E |-> Sentinel,
                 comm_T |-> Sentinel, E |-> Zeros(shape.num_constraints),
                 witness |-> witness, instance |-> instance, u |-> 1,
                 hash |-> base_to_scalar(h), output |-> <<>>, circuit |-> c],
        output |-> out,
        satisfied |-> sat,
        panics |-> ~sat \/ ~base_to_scalar_ok(h),
        input |-> new_input,
        io_terms |-> ioterms,
        comp_hash |-> comp_hash,
        fold |-> [r |-> r, rterms |-> rterms, W |-> W_fold, E |-> E_fold,
                  u |-> u_fold, hash |-> hash_fold]]

\* ------------------------------------------------------------ native fold
\* The cross terms without the term cz1.
CrossTerms_short(e1, e2, u) ==
    [k \in 1..Min(Len(e1.az), Len(e2.az)) |->
        (((e1.az[k] * e2.bz[k]) % Q) + ((e2.az[k] * e1.bz[k]) % Q)
          + (Q - ((u * e2.cz[k]) % Q))) % Q]
\* The cross terms: the six products zipped, so as long as the shortest of them.
CrossTerms(e1, e2, u) ==
    [k \in 1..Min(Len(e1.az), Len(e2.az)) |->
        ((((e1.az[k] * e2.bz[k]) % Q) + ((e2.az[k] * e1.bz[k]) % Q)
          + (Q - ((u * e2.cz[k]) % Q))) + (Q - e1.cz[k])) % Q]

\* v[k] += w[k] * r over the zipped prefix.
ZipAddMul(v, w, r) ==
    [k \in 1..Len(v) |-> IF k <= Len(w) THEN (v[k] + ((w[k] * r) % Q)) % Q ELSE v[k]]

SentinelFix(p) == IF p.x = 0 /\ p.y = 0 /\ p.inf THEN [p EXCEPT !.y = 1] ELSE p

\* r1cs.rs commit_t: a commitment at infinity is replaced by a random point rp.
r1cs_commit_t_ok(self, other) == eval_r1cs_ok(self) /\ eval_r1cs_ok(other)
r1cs_commit_t(self, other, rp) ==
    LET t == CrossTerms(eval_r1cs(self), eval_r1cs(other), self.u)
        cT == commit_ark(t)
    IN [t |-> t, comm_T |-> IF cT.inf THEN rp ELSE cT]

\* r1cs.rs fold: r absorbs the comm_T the slot already holds, and comm_E is moved
\* by that same stored comm_T; the fresh comm_T is stored afterwards.
r1cs_fold_terms(self, other, prm) ==
    <<prm>> \o NativeXyb(self.comm_witness) \o NativeXyb(self.comm_E)
    \o <<self.u, self.hash>> \o NativeXyb(other.comm_witness) \o <<other.hash>>
    \o NativeXyb(self.comm_T)
r1cs_fold(self, other, prm, rp) ==
    LET r == squeeze_native_field_elements(r1cs_fold_terms(self, other, prm))
        ct == r1cs_commit_t(self, other, rp)
    IN [self EXCEPT
          !.witness = ZipAddMul(self.witness, other.witness, r),
          !.instance = ZipAddMul(self.instance, other.instance, r),
          !.comm_witness = AddMul(self.comm_witness, other.comm_witness, r),
          !.E = ZipAddMul(self.E, ct.t, r),
          !.comm_E = AddMul(self.comm_E, self.comm_T, r),
          !.u = (self.u + r) % Q,
          !.comm_T = ct.comm_T,
          !.hash = (self.hash + ((other.hash * r) % Q)) % Q]

\* circuit.rs commit_t: both products use the shape of self, with z = (W, u, x);
\* an identity commitment is given the representation (0, 1, true).
circ_commit_t_ok(self, other) ==
    /\ r1cs_matrix_vec_product_ok(self.shape, circ_z(self))
    /\ r1cs_matrix_vec_product_ok(self.shape, circ_z(other))
circ_commit_t(self, other) ==
    LET t == CrossTerms(r1cs_matrix_vec_product(self.shape, circ_z(self)),
                        r1cs_matrix_vec_product(self.shape, circ_z(other)), self.u)
    IN [t |-> t, comm_T |-> SentinelFix(commit_ark(t))]

\* circuit.rs fold: r is read from 254 squeezed bits of a transcript that absorbs
\* the fresh comm_T; hash is updated in Fr.
circ_fold_terms(self, other, prm, comm_T) ==
    <<prm>> \o NativeXyb(self.comm_witness) \o NativeXyb(self.comm_E)
    \o <<self.u, scalar_to_base(self.hash)>> \o NativeXyb(other.comm_witness)
    \o <<scalar_to_base(other.hash)>> \o NativeXyb(comm_T)
circ_fold(self, other, prm) ==
    LET ct == circ_commit_t(self, other)
        r == squeeze_bits(circ_fold_terms(self, other, prm, ct.comm_T))
        r_base == scalar_to_base(r)
    IN [self EXCEPT
          !.witness = ZipAddMul(self.witness, other.witness, r_base),
          !.instance = ZipAddMul(self.instance, other.instance, r_base),
          !.comm_witness = SentinelFix(AddMul(self.comm_witness, other.comm_witness, r)),
          !.E = ZipAddMul(self.E, ct.t, r_base),
          !.comm_E = SentinelFix(AddMul(self.comm_E, ct.comm_T, r)),
          !.u = (self.u + r_base) % Q,
          !.comm_T = SentinelFix(ct.comm_T),
          !.hash = (self.hash + ((other.hash * r) % R)) % R]

\* The folding randomness and transcript of the native fold, for the record.
fold_r(self, other, prm) ==
    IF self.impl = "r1cs"
    THEN squeeze_native_field_elements(r1cs_fold_terms(self, other, prm))
    ELSE squeeze_bits(circ_fold_terms(self, other, prm, circ_commit_t(self, other).comm_T))
fold_terms(self, other, prm) ==
    IF self.impl = "r1cs" THEN r1cs_fold_terms(self, other, prm)
    ELSE circ_fold_terms(self, other, prm, circ_commit_t(self, other).comm_T)
fold_ok(self, other) ==
    IF self.impl = "r1cs" THEN r1cs_commit_t_ok(self, other)
    ELSE circ_commit_t_ok(self, other)
fold(self, other, prm, rp) ==
    IF self.impl = "r1cs" THEN r1cs_fold(self, other, prm, rp)
    ELSE circ_fold(self, other, prm)

\* ------------------------------------------------------------- R1CS::new
\* r1cs.rs R1CS::new: the pair (r1cs, circuit).  Six points are drawn: the three
\* commitments of the literal, latest_witness, and comm_E, comm_T of the new pair.
r1cs_literal(z, seed) ==
    [impl |-> "r1cs", shape |-> empty_shape(z), param |-> 0,
     comm_witness |-> Rand(seed, 1), comm_E |-> Rand(seed, 2),
     comm_T |-> Rand(seed, 3), E |-> <<>>, witness |-> <<>>, instance |-> <<>>,
     u |-> 1, hash |-> 0, output |-> z, circuit |-> "none"]
r1cs_new(z, c, seed) ==
    LET lit == r1cs_literal(z, seed)
        syn == r1cs_synthesize(lit, 0, hash_terms(lit), Rand(seed, 4), 0, 0, 0, 0, c,
                               Rand(seed, 5), Rand(seed, 6))
        param == digest(syn.new.shape)
    IN [r1cs |-> [impl |-> "r1cs", shape |-> syn.new.shape, param |-> param,
                  comm_witness |-> lit.comm_witness, comm_E |-> lit.comm_E,
                  comm_T |-> lit.comm_T,
                  E |-> Zeros(syn.new.shape.num_constraints),
                  witness |-> syn.new.witness, instance |-> syn.new.instance,
                  u |-> lit.u, hash |-> 0, output |-> syn.output, circuit |-> c],
        circuit |-> [syn.new EXCEPT !.param = param],
        panics |-> FALSE]

\* circuit.rs R1CS::new; the priming pair is returned beside the slot, as the
\* caller in lib.rs takes it.
circ_literal(z, c) ==
    [impl |-> "circuit", shape |-> empty_shape(z), param |-> 0,
     comm_witness |-> Sentinel, comm_E |-> Sentinel, comm_T |-> Sentinel,
     E |-> <<>>, witness |-> <<>>, instance |-> <<>>, u |-> 1, hash |-> 0,
     output |-> z, circuit |-> c]
circ_new(z, c) ==
    LET lit == circ_literal(z, c)
        syn == circ_synthesize(lit, 0, Sentinel, 0, 0, 0, 0)
    IN [r1cs |-> [impl |-> "circuit", shape |-> syn.new.shape, param |-> 0,
                  comm_witness |-> lit.comm_witness, comm_E |-> lit.comm_E,
                  comm_T |-> lit.comm_T,
                  E |-> Zeros(syn.new.shape.num_constraints),
                  witness |-> Zeros(Len(syn.new.witness)),
                  instance |-> Zeros(Len(syn.new.instance)),
                  u |-> lit.u, hash |-> 0, output |-> z, circuit |-> c],
        circuit |-> syn.new,
        panics |-> syn.panics]

R1CS_new(impl, z, c, seed) ==
    IF impl = "r1cs" THEN r1cs_new(z, c, seed) ELSE circ_new(z, c)

\* ------------------------------------------------------------ the proof
\* impl, nslots, z0in: the arithmetization, L and z0 of the run.  rng: the stream
\* OsRng yields in the run, one of NSeeds.  folded, latest,
\* pc, i: the fields of Proof.  result: what the last verify returned.  steps,
\* last, argsok, tampered: history kept beside the program state (the number of
\* updates, the data of the last update, whether every update was given pc < L,
\* which field was overwritten from outside: "no", "u", "W" or "hash").
VARIABLES impl, nslots, z0in, rng, phase, folded, latest, pc, i, result, steps, last,
          argsok, tampered
vars == <<impl, nslots, z0in, rng, phase, folded, latest, pc, i, result, steps, last,
          argsok, tampered>>

Impls == {"r1cs", "circuit"}
Slot(fs, j) == fs[j + 1]

NoResult == [kind |-> "None", a |-> 0, b |-> 0]
NoPair == circ_literal(<<0>>, "none")
NoLast ==
    [by |-> "none", slot |-> 0, new_pc |-> 0, i |-> 0, panicked |-> FALSE,
     satisfied |-> TRUE,
     comp_hash |-> 0, latest_hash |-> 0, input |-> <<>>, output |-> <<>>,
     io_terms |-> <<>>, params_synth |-> 0, params_fold |-> 0,
     circ |-> [r |-> 0, rterms |-> <<>>, W |-> Identity, E |-> Identity,
               u |-> 0, hash |-> 0],
     native |-> [r |-> 0, rterms |-> <<>>, W |-> Identity, E |-> Identity,
                 u |-> 0, hash |-> 0],
     same_shape |-> TRUE]

\* lib.rs Proof::params and the first term of hash_public_io: the sum of the
\* slots' digests.
RECURSIVE SumParams(_, _)
SumParams(fs, n) == IF n = 0 THEN 0 ELSE (SumParams(fs, n - 1) + params(fs[n])) % Q
proof_params(fs) == SumParams(fs, Len(fs))

\* lib.rs hash_public_io; the caller guarantees nothing about p, and fs[p] is an
\* indexing that panics out of range.
hash_public_io_ok(fs, p) == p < Len(fs)
hash_public_io_terms(fs, ii, p) ==
    <<proof_params(fs), ii % Q, p % Q>> \o z0(Slot(fs, p)) \o output(Slot(fs, p))
    \o NativeXyb(witness_commitment(Slot(fs, p))) \o crossterms(Slot(fs, p))
    \o <<hash(Slot(fs, p))>>
hash_public_io(fs, ii, p) ==
    squeeze_native_field_elements(hash_public_io_terms(fs, ii, p))

Ok == [kind |-> "Ok", a |-> 0, b |-> 0]
Err(k) == [kind |-> k, a |-> 0, b |-> 0]
Err2(k, x, y) == [kind |-> k, a |-> x, b |-> y]
Panic == [kind |-> "Panic", a |-> 0, b |-> 0]

\* Proof::verify with the check of the crossterms of latest ahead of the hash.
verify_crossterms_first(fs, lt, p, ii) ==
    IF ii = 1
    THEN IF \E j \in 1..Len(fs) : has_crossterms(fs[j])
         THEN Err("ExpectedBaseCase")
         ELSE IF has_crossterms(lt) THEN Err("ExpectedBaseCase") ELSE Ok
    ELSE IF ~hash_public_io_ok(fs, p) THEN Panic
    ELSE IF has_crossterms(lt) THEN Err("UnexpectedCrossterms")
    ELSE IF hash(lt) # hash_public_io(fs, ii, p)
         THEN Err2("HashMismatch", hash_public_io(fs, ii, p), hash(lt))
    ELSE IF p > Len(fs) THEN Err2("PCOutOfRange", p, Len(fs))
    ELSE IF \E j \in 1..Len(fs) : ~is_satisfied_ok(fs[j]) THEN Panic
    ELSE IF \E j \in 1..Len(fs) : ~is_satisfied(fs[j]) THEN Err("UnsatisfiedCircuit")
    ELSE IF ~is_satisfied_ok(lt) THEN Panic
    ELSE IF ~is_satisfied(lt) THEN Err("UnsatisfiedCircuit")
    ELSE Ok

\* Proof::verify with the two fields of HashMismatch in the other order.
verify_swapped(fs, lt, p, ii) ==
    IF ii = 1
    THEN IF \E j \in 1..Len(fs) : has_crossterms(fs[j])
         THEN Err("ExpectedBaseCase")
         ELSE IF has_crossterms(lt) THEN Err("ExpectedBaseCase") ELSE Ok
    ELSE IF ~hash_public_io_ok(fs, p) THEN Panic
    ELSE IF hash(lt) # hash_public_io(fs, ii, p)
         THEN Err2("HashMismatch", hash(lt), hash_public_io(fs, ii, p))
    ELSE IF p > Len(fs) THEN Err2("PCOutOfRange", p, Len(fs))
    ELSE IF has_crossterms(lt) THEN Err("UnexpectedCrossterms")
    ELSE IF \E j \in 1..Len(fs) : ~is_satisfied_ok(fs[j]) THEN Panic
    ELSE IF \E j \in 1..Len(fs) : ~is_satisfied(fs[j]) THEN Err("UnsatisfiedCircuit")
    ELSE IF ~is_satisfied_ok(lt) THEN Panic
    ELSE IF ~is_satisfied(lt) THEN Err("UnsatisfiedCircuit")
    ELSE Ok

\* lib.rs Proof::verify
verify(fs, lt, p, ii) ==
    IF ii = 1
    THEN IF \E j \in 1..Len(fs) : has_crossterms(fs[j])
         THEN Err("ExpectedBaseCase")
         ELSE IF has_crossterms(lt) THEN Err("ExpectedBaseCase") ELSE Ok
    ELSE IF ~hash_public_io_ok(fs, p) THEN Panic
    ELSE IF hash(lt) # hash_public_io(fs, ii, p)
         THEN Err2("HashMismatch", hash_public_io(fs, ii, p), hash(lt))
    ELSE IF p > Len(fs) THEN Err2("PCOutOfRange", p, Len(fs))
    ELSE IF has_crossterms(lt) THEN Err("UnexpectedCrossterms")
    ELSE IF \E j \in 1..Len(fs) : ~is_satisfied_ok(fs[j]) THEN Panic
    ELSE IF \E j \in 1..Len(fs) : ~is_satisfied(fs[j]) THEN Err("UnsatisfiedCircuit")
    ELSE IF ~is_satisfied_ok(lt) THEN Panic
    ELSE IF ~is_satisfied(lt) THEN Err("UnsatisfiedCircuit")
    ELSE Ok

Init ==
    /\ impl \in Impls
    /\ nslots \in 1..MaxL
    /\ z0in \in 1..MaxZ0
    /\ rng \in 1..NSeeds
    /\ phase = "start"
    /\ folded = <<>>
    /\ latest = NoPair
    /\ pc = 0
    /\ i = 0
    /\ result = NoResult
    /\ steps = 0
    /\ last = NoLast
    /\ argsok = TRUE
    /\ tampered = "no"

\* The construction of the tests in lib.rs: R1CS::new once per step circuit, the
\* priming pair of the last call kept as latest, then Proof::new.
Built(j) == R1CS_new(impl, <<z0in>>, CircuitOf(j), rng + (NSeeds * j))
proof_new_i(fs) == Len(fs)
New ==
    /\ phase = "start"
    /\ IF \E j \in 0..(nslots - 1) : Built(j).panics
       THEN /\ phase' = "panicked"
            /\ UNCHANGED <<folded, latest, pc, i>>
       ELSE /\ phase' = "ready"
            /\ folded' = [j \in 1..nslots |-> Built(j - 1).r1cs]
            /\ latest' = Built(nslots - 1).circuit
            /\ pc' = 0
            /\ i' = proof_new_i(folded')
    /\ UNCHANGED <<impl, nslots, z0in, rng, result, steps, last, argsok, tampered>>

\* The call self.folded[self.pc].synthesize(..) of Proof::update.  For r1cs.rs the
\* previous terms are the slot's hash_terms(), as R1CS::new passes them, and the
\* step circuit is the slot's own.
synthesize(self, prm, lt, old_pc, new_pc, ii, rE, rT) ==
    IF self.impl = "r1cs"
    THEN r1cs_synthesize(self, prm, hash_terms(self), witness_commitment(lt),
                         hash(lt), old_pc, new_pc, ii, self.circuit, rE, rT)
    ELSE circ_synthesize(self, prm, witness_commitment(lt), hash(lt),
                         old_pc, new_pc, ii)
synthesize_panics(self, prm, lt, old_pc, new_pc, ii) ==
    IF self.impl = "r1cs" THEN FALSE
    ELSE circ_synthesize(self, prm, witness_commitment(lt), hash(lt),
                         old_pc, new_pc, ii).panics

StepSeed == rng + (NSeeds * (MaxL + steps))

\* lib.rs Proof::update.  No check of the argument is made; self.folded[self.pc]
\* panics when the stored pc is out of range.
update_i(ii) == ii + 1
\* The stored pc kept as it was.
update_pc_kept(old_pc, new_pc) == old_pc
update_pc(old_pc, new_pc) == new_pc
Update(new_pc) ==
    /\ phase = "ready"
    /\ steps < MaxSteps
    /\ IF pc >= Len(folded)
       THEN /\ phase' = "panicked"
            /\ UNCHANGED <<folded, latest, pc, i, last>>
       ELSE \E self \in {Slot(folded, pc)}, prm \in {proof_params(folded)} :
            \E syn \in {synthesize(self, prm, latest, pc, new_pc, i,
                                   Rand(StepSeed, 1), Rand(StepSeed, 2))} :
            \E self1 \in {[self EXCEPT !.output = syn.output]} :
            \E folded1 \in {[folded EXCEPT ![pc + 1] = self1]} :
            \E prm2 \in {proof_params(folded1)} :
            \E self2 \in {IF fold_ok(self1, latest)
                           THEN fold(self1, latest, prm2, Rand(StepSeed, 3))
                           ELSE self1} :
               IF synthesize_panics(self, prm, latest, pc, new_pc, i)
               THEN /\ phase' = "panicked"
                    /\ last' = [NoLast EXCEPT !.by = "update", !.panicked = TRUE, !.slot = pc,
                                   !.new_pc = new_pc, !.i = i,
                                   !.satisfied = syn.satisfied,
                                   !.comp_hash = syn.comp_hash,
                                   !.latest_hash = scalar_to_base(hash(latest))]
                    /\ UNCHANGED <<folded, latest, pc, i>>
               ELSE IF ~fold_ok(self1, latest)
               THEN /\ phase' = "panicked"
                    /\ folded' = folded1
                    /\ last' = [NoLast EXCEPT !.by = "update", !.panicked = TRUE, !.slot = pc,
                                   !.new_pc = new_pc, !.i = i]
                    /\ UNCHANGED <<latest, pc, i>>
               ELSE /\ phase' = "ready"
                    /\ folded' = [folded EXCEPT ![pc + 1] = self2]
                    /\ latest' = syn.new
                    /\ pc' = update_pc(pc, new_pc)
                    /\ i' = update_i(i)
                    /\ last' = [by |-> "update", slot |-> pc, new_pc |-> new_pc,
                                i |-> i,
                                panicked |-> FALSE, satisfied |-> syn.satisfied,
                                comp_hash |-> syn.comp_hash,
                                latest_hash |-> scalar_to_base(hash(latest)),
                                input |-> syn.input, output |-> syn.output,
                                io_terms |-> syn.io_terms,
                                params_synth |-> prm, params_fold |-> prm2,
                                circ |-> syn.fold,
                                native |-> [r |-> fold_r(self1, latest, prm2),
                                            rterms |-> fold_terms(self1, latest, prm2),
                                            W |-> self2.comm_witness,
                                            E |-> self2.comm_E,
                                            u |-> self2.u,
                                            hash |-> scalar_to_base(self2.hash)],
                                same_shape |-> (self1.shape = latest.shape)]
    /\ result' = NoResult
    /\ steps' = steps + 1
    /\ argsok' = (argsok /\ new_pc < nslots)
    /\ UNCHANGED <<impl, nslots, z0in, rng, tampered>>

\* A call of Proof::verify; its result is kept until the state changes.
Verify ==
    /\ phase = "ready"
    /\ result = NoResult
    /\ result' = verify(folded, latest, pc, i)
    /\ phase' = IF result'.kind = "Panic" THEN "panicked" ELSE "ready"
    /\ UNCHANGED <<impl, nslots, z0in, rng, folded, latest, pc, i, steps, last, argsok,
                   tampered>>

Next ==
    \/ New
    \/ \E new_pc \in 0..nslots : Update(new_pc)
    \/ Verify

Spec == Init /\ [][Next]_vars

\* ------------------------------------------------- proofs held by a caller
\* Proof::new is public and takes the pairs by value, and the fields of a pair
\* are pub(crate): a caller inside the crate may hand over, and overwrite, any
\* pair.  Assemble is Proof::new over the pairs with the fields that R1CS::new
\* assigns, without the run of the assertion that New accounts for.
Assemble ==
    /\ phase = "start"
    /\ folded' = [j \in 1..nslots |-> Built(j - 1).r1cs]
    /\ latest' = Built(nslots - 1).circuit
    /\ phase' = "ready"
    /\ pc' = 0
    /\ i' = proof_new_i(folded')
    /\ UNCHANGED <<impl, nslots, z0in, rng, result, steps, last, argsok, tampered>>

\* synthesize and fold applied to the pair (folded[pc], latest) the proof holds,
\* as Proof::update applies them, with the proof left as it is: the in-circuit
\* fold and the native fold of one pair side by side.
Compare(new_pc) ==
    /\ phase = "ready"
    /\ tampered = "no"
    /\ pc < Len(folded)
    /\ new_pc < nslots
    /\ \E self \in {Slot(folded, pc)}, prm \in {proof_params(folded)} :
       \E syn \in {synthesize(self, prm, latest, pc, new_pc, i,
                              Rand(StepSeed, 1), Rand(StepSeed, 2))} :
       \E self1 \in {[self EXCEPT !.output = syn.output]} :
       \E prm2 \in {proof_params([folded EXCEPT ![pc + 1] = self1])} :
       \E self2 \in {IF fold_ok(self1, latest)
                      THEN fold(self1, latest, prm2, Rand(StepSeed, 3))
                      ELSE self1} :
          /\ fold_ok(self1, latest)
          /\ last' = [by |-> "compare", slot |-> pc, new_pc |-> new_pc, i |-> i,
                      panicked |-> synthesize_panics(self, prm, latest, pc, new_pc, i),
                      satisfied |-> syn.satisfied, comp_hash |-> syn.comp_hash,
                      latest_hash |-> scalar_to_base(hash(latest)),
                      input |-> syn.input, output |-> syn.output,
                      io_terms |-> syn.io_terms,
                      params_synth |-> prm, params_fold |-> prm2,
                      circ |-> syn.fold,
                      native |-> [r |-> fold_r(self1, latest, prm2),
                                  rterms |-> fold_terms(self1, latest, prm2),
                                  W |-> self2.comm_witness, E |-> self2.comm_E,
                                  u |-> self2.u,
                                  hash |-> scalar_to_base(self2.hash)],
                      same_shape |-> (self1.shape = latest.shape)]
    /\ UNCHANGED <<impl, nslots, z0in, rng, phase, folded, latest, pc, i, result, steps,
                   argsok, tampered>>

\* A field overwritten from outside, once: folded[0].u = 2, folded[0].W[0] += 1,
\* latest.hash changed.
TamperU ==
    /\ phase = "ready" /\ tampered = "no"
    /\ folded' = [folded EXCEPT ![1].u = 2]
    /\ tampered' = "u"
    /\ result' = NoResult
    /\ UNCHANGED <<impl, nslots, z0in, rng, phase, latest, pc, i, steps, last, argsok>>
TamperW ==
    /\ phase = "ready" /\ tampered = "no"
    /\ Len(folded[1].witness) > 0
    /\ folded' = [folded EXCEPT ![1].witness[1] = (@ + 1) % Q]
    /\ tampered' = "W"
    /\ result' = NoResult
    /\ UNCHANGED <<impl, nslots, z0in, rng, phase, latest, pc, i, steps, last, argsok>>
TamperHash ==
    /\ phase = "ready" /\ tampered = "no"
    /\ latest' = [latest EXCEPT !.hash = (@ + 1) % (IF impl = "r1cs" THEN Q ELSE R)]
    /\ tampered' = "hash"
    /\ result' = NoResult
    /\ UNCHANGED <<impl, nslots, z0in, rng, phase, folded, pc, i, steps, last, argsok>>
\* latest.u = 2, overwritten from outside, once.
TamperLatestU ==
    /\ phase = "ready" /\ tampered = "no"
    /\ latest' = [latest EXCEPT !.u = 2]
    /\ tampered' = "latest.u"
    /\ result' = NoResult
    /\ UNCHANGED <<impl, nslots, z0in, rng, phase, folded, pc, i, steps, last, argsok>>

NextHeld ==
    \/ Assemble
    \/ \E new_pc \in 0..nslots : tampered = "no" /\ Update(new_pc)
    \/ \E new_pc \in 0..nslots : Compare(new_pc)
    \/ TamperU
    \/ TamperW
    \/ TamperHash
    \/ TamperLatestU
    \/ Verify

SpecHeld == Init /\ [][NextHeld]_vars

\* ------------------------------------------------- fold over given operands
\* fold is a method of the public trait Arithmetization and takes any two pairs.
\* The operands: a pair over the shape of step circuit c with relaxation scalar
\* uu, instance and witness chosen by a and d, the error vector E that makes every
\* row az * bz = u * cz + E hold in the vector order the arithmetization
\* evaluates with, and commitments to the witness and to E.
eval_z(s) == IF s.impl = "r1cs" THEN r1cs_z(s) ELSE circ_z(s)
OperandInstance(im, a) == IF im = "r1cs" THEN <<a, 3>> ELSE <<(a * a) % Q, 3>>
OperandWitness(im, c, a, d) ==
    IF im = "r1cs"
    THEN <<d, 0>> \o StepWitness(c, a)
    ELSE <<d, a, 1, 0>> \o StepWitness(c, 2)
Slack(shape, z, uu) ==
    [k \in 1..shape.num_constraints |->
        (((RowDot(shape.a[k], z) * RowDot(shape.b[k], z)) % Q)
          + (Q - ((uu * RowDot(shape.c[k], z)) % Q))) % Q]
Operand(im, c, uu, a, d) ==
    LET shape == to_matrices(im, c)
        x == OperandInstance(im, a)
        w == OperandWitness(im, c, a, d)
        e == Slack(shape, IF im = "r1cs" THEN <<uu>> \o x \o w ELSE w \o <<uu>> \o x, uu)
    IN [impl |-> im, shape |-> shape, param |-> digest(shape),
        comm_witness |-> SentinelFix(commit_ark(w)),
        comm_E |-> SentinelFix(commit_ark(e)),
        comm_T |-> IF im = "r1cs" THEN Rand(a + d, 3) ELSE Sentinel,
        E |-> e, witness |-> w, instance |-> x, u |-> uu,
        hash |-> (a + d + uu) % R, output |-> <<x[1]>>, circuit |-> c]

InitFold ==
    /\ impl \in Impls
    /\ nslots = 1
    /\ z0in = 1
    /\ rng \in 1..NSeeds
    /\ phase = "operands"
    /\ \E c \in {"cubic", "square"}, u1 \in 1..MaxU, u2 \in 1..MaxU :
       \E a1 \in 0..MaxA, a2 \in 0..MaxA, d1 \in 0..1, d2 \in 0..1 :
          /\ folded = <<Operand(impl, c, u1, a1, d1)>>
          /\ latest = Operand(impl, c, u2, a2, d2)
    /\ pc = 0
    /\ i = 2
    /\ result = NoResult
    /\ steps = 0
    /\ last = NoLast
    /\ argsok = TRUE
    /\ tampered = "no"

\* self.fold(&other, constants, generators, params) on the operands held.
FoldPair ==
    /\ phase = "operands"
    /\ IF fold_ok(folded[1], latest)
       THEN /\ \E out \in {fold(folded[1], latest, proof_params(folded), Rand(rng, 3))} :
                  folded' = <<out>>
            /\ phase' = "folded"
       ELSE /\ phase' = "panicked"
            /\ UNCHANGED folded
    /\ UNCHANGED <<impl, nslots, z0in, rng, latest, pc, i, result, steps, last, argsok,
                   tampered>>

NextFold == FoldPair

SpecFold == InitFold /\ [][NextFold]_vars

\* ------------------------------------------------- commitment.rs commit
\* commit(generators, scalars): generators.par_iter().zip_eq(scalars), each pair
\* multiplied, the products summed from G::identity().  zip_eq panics unless the
\* two iterators have the same length.
commit_ok(generators, scalars) == Len(generators) = Len(scalars)
commit(generators, scalars) == Pt(SumTo(scalars, generators, Len(scalars)))

\* The vectors of scalars of length n with entries up to MaxV.
ScalarsOf(n) == [1..n -> 0..MaxV]

\* latest holds the arguments of one call: n generators and a vector of scalars.
InitCommit ==
    /\ impl = "r1cs"
    /\ nslots = 1
    /\ z0in = 1
    /\ rng = 1
    /\ phase = "commit"
    /\ folded = <<>>
    /\ \E n \in 0..MaxGens, m \in 0..MaxLenV :
       \E v \in ScalarsOf(m) :
          latest = [generators |-> [j \in 1..n |-> Gen(j)], scalars |-> v]
    /\ pc = 0
    /\ i = 0
    /\ result = NoResult
    /\ steps = 0
    /\ last = NoLast
    /\ argsok = TRUE
    /\ tampered = "no"

\* The call; the value returned is kept as its group element.
Commit ==
    /\ phase = "commit"
    /\ result' = IF commit_ok(latest.generators, latest.scalars)
                 THEN [kind |-> "Ok", a |-> Val(commit(latest.generators, latest.scalars)),
                       b |-> 0]
                 ELSE Panic
    /\ phase' = "done"
    /\ UNCHANGED <<impl, nslots, z0in, rng, folded, latest, pc, i, steps, last, argsok,
                   tampered>>

NextCommit == Commit

SpecCommit == InitCommit /\ [][NextCommit]_vars

\* ------------------------------------------------------------- properties
\* The relaxed relation of a pair, row by row, over a given z:
\* (A z)[k] * (B z)[k] = u * (C z)[k] + E[k] for every row k.
RelaxedRows(s, z) ==
    /\ MatInRange(s.shape.a, z) /\ MatInRange(s.shape.b, z) /\ MatInRange(s.shape.c, z)
    /\ Len(s.E) >= s.shape.num_constraints
    /\ \A k \in 1..s.shape.num_constraints :
          (RowDot(s.shape.a[k], z) * RowDot(s.shape.b[k], z)) % Q
            = ((s.u * RowDot(s.shape.c[k], z)) + s.E[k]) % Q
\* The relation read with z = (1, x, W), or with the relaxed z = (u, x, W).
RelaxedHolds(s) ==
    \/ RelaxedRows(s, <<1>> \o s.instance \o s.witness)
    \/ RelaxedRows(s, <<s.u>> \o s.instance \o s.witness)
\* E has a non-zero entry or u is not 1.
ErrorOrScalarSet(s) == AnyNonZero(s.E) \/ s.u # 1
\* The hash of the tuple (params, i, pc, z0, output, comm_W, comm_E, u, hash) with
\* the slot components taken from slot number j.
TupleHash(fs, ii, p, j) ==
    squeeze_native_field_elements(
        <<proof_params(fs), ii % Q, p % Q>> \o z0(Slot(fs, j)) \o output(Slot(fs, j))
        \o NativeXyb(witness_commitment(Slot(fs, j))) \o crossterms(Slot(fs, j))
        \o <<hash(Slot(fs, j))>>)

\* C1: with every update given pc < L, verify returns Ok after construction and
\* after every update.
C1_VerifyOkAfterEveryStep ==
    (result.kind # "None" /\ argsok) => result.kind = "Ok"

\* C2: after Proof::new the iteration counter i is 1, whatever the number of slots.
C2_CounterIsOneAfterNew ==
    (phase = "ready" /\ steps = 0) => i = 1

\* C3: after every update latest.hash is the hash of the tuple over folded[pc_prev],
\* the slot the update folded into, and is the value the verifier recomputes.
C3_LatestHashIsVerifierHash ==
    (phase = "ready" /\ last.by = "update" /\ ~last.panicked /\ argsok) =>
        /\ hash(latest) = TupleHash(folded, i, pc, last.slot)
        /\ hash(latest) = hash_public_io(folded, i, pc)

\* C4: the in-circuit fold and the native fold of one pair agree: the same
\* transcript and randomness r, and equal folded comm_W, comm_E, u and hash.
C4_InCircuitFoldIsNativeFold ==
    (last.by = "compare" \/ (last.by = "update" /\ ~last.panicked)) =>
        /\ last.circ.rterms = last.native.rterms
        /\ last.circ.r = last.native.r
        /\ last.circ.W = last.native.W
        /\ last.circ.E = last.native.E
        /\ last.circ.u = last.native.u
        /\ last.circ.hash = last.native.hash

\* C5: after Proof::new and after every update with pc < L, every slot satisfies
\* the relaxed R1CS relation row by row.
C5_SlotsSatisfyRelaxedRelation ==
    (phase = "ready" /\ argsok) =>
        \A j \in 1..Len(folded) : RelaxedHolds(folded[j])

\* C6: an update called with pc >= L leaves folded, latest, pc and i as they were.
C6_OutOfRangeUpdateRejected ==
    [][(argsok /\ ~argsok') => UNCHANGED <<folded, latest, pc, i>>]_vars

\* C7: with i > 1 and the stored pc outside the slot range, verify returns
\* PCOutOfRange(pc, L).
C7_OutOfRangePcReported ==
    (result.kind # "None" /\ i > 1 /\ pc >= Len(folded)) =>
        result = Err2("PCOutOfRange", pc, Len(folded))

\* C8: with i = 1, verify returns ExpectedBaseCase whenever a slot or latest has a
\* non-zero entry of E or u different from 1.
C8_BaseCaseRejectsCrossterms ==
    (result.kind # "None" /\ i = 1
       /\ (ErrorOrScalarSet(latest) \/ \E j \in 1..Len(folded) : ErrorOrScalarSet(folded[j]))) =>
        result.kind = "ExpectedBaseCase"

\* C9: with i > 1 and the hash, pc and crossterm checks passed, verify returns
\* UnsatisfiedCircuit whenever a slot violates a row of the relaxed relation or
\* holds a comm_W or comm_E that is not the commitment to its W or E.
C9_UnsatisfiedSlotReported ==
    (result.kind # "None" /\ i > 1 /\ pc < Len(folded)
       /\ hash(latest) = hash_public_io(folded, i, pc)
       /\ ~has_crossterms(latest)
       /\ \E j \in 1..Len(folded) :
             \/ ~RelaxedHolds(folded[j])
             \/ folded[j].comm_witness # commit_ark(folded[j].witness)
             \/ folded[j].comm_E # commit_ark(folded[j].E)) =>
        result.kind = "UnsatisfiedCircuit"

C11_ConstructionIndependentOfRng ==
    (phase = "ready" /\ steps = 0 /\ tampered = "no") =>
        \A s \in 1..NSeeds :
            /\ folded = [j \in 1..nslots |->
                            R1CS_new(impl, <<z0in>>, CircuitOf(j - 1),
                                     s + (NSeeds * (j - 1))).r1cs]
            /\ latest = R1CS_new(impl, <<z0in>>, CircuitOf(nslots - 1),
                                 s + (NSeeds * (nslots - 1))).circuit

\* A point whose infinity flag is set is written (0, 1, true).
IdentityIsSentinel(p) == p.inf => (p.x = 0 /\ p.y = 1)
\* The same for the three field elements absorbed at positions k, k + 1, k + 2.
AbsorbedIsSentinel(t, k) == t[k + 2] = 1 => (t[k] = 0 /\ t[k + 1] = 1)

C13_SlotCommitmentsHonest ==
    (phase = "ready" /\ tampered = "no") =>
        \A j \in 1..Len(folded) :
            /\ Val(folded[j].comm_witness) = Val(commit_ark(folded[j].witness))
            /\ Val(folded[j].comm_E) = Val(commit_ark(folded[j].E))

\* C14: after every update of a run whose updates were all given pc < L, latest is
\* a fresh instance: latest.u = 1, latest.E has one entry per constraint and every
\* entry is zero, and latest.has_crossterms() is false.
C14_LatestIsFresh ==
    (phase = "ready" /\ last.by = "update" /\ ~last.panicked /\ argsok /\ tampered = "no") =>
        /\ latest.u = 1
        /\ Len(latest.E) = latest.shape.num_constraints
        /\ \A k \in 1..Len(latest.E) : latest.E[k] = 0
        /\ ~has_crossterms(latest)
\* Two updates were made and latest is the pair of the second, with rows to check.
C14_Witness ==
    /\ phase = "ready" /\ last.by = "update" /\ ~last.panicked /\ argsok
    /\ tampered = "no" /\ steps >= 2
    /\ latest.shape.num_constraints > 0
    /\ latest.u = 1

\* The relaxed relation of a pair over the vector the arithmetization evaluates
\* the matrices with.
RelaxedAsEvaluated(s) == RelaxedRows(s, eval_z(s))
\* u = 1 and E = 0.
Fresh(s) == s.u = 1 /\ ~AnyNonZero(s.E)

\* C15 as stated: for any self and other over one shape that satisfy the relaxed
\* relation, other with any u and E, self satisfies the relation after
\* fold(self, other).
C15_FoldPreservesRelationAnyOther ==
    [][(phase = "operands" /\ phase' = "folded"
          /\ folded[1].shape = latest.shape
          /\ RelaxedAsEvaluated(folded[1]) /\ RelaxedAsEvaluated(latest))
        => RelaxedAsEvaluated(folded'[1])]_vars
\* C15 amended: the same, for other with u = 1 and E = 0.
C15_FoldPreservesRelationFreshOther ==
    [][(phase = "operands" /\ phase' = "folded"
          /\ folded[1].shape = latest.shape
          /\ RelaxedAsEvaluated(folded[1]) /\ RelaxedAsEvaluated(latest)
          /\ Fresh(latest))
        => RelaxedAsEvaluated(folded'[1])]_vars
\* A fresh other was folded into self and the result has u # 1 and E # 0.
C15_Witness ==
    /\ phase = "folded"
    /\ folded[1].shape = latest.shape
    /\ Fresh(latest) /\ RelaxedAsEvaluated(latest)
    /\ folded[1].u # 1 /\ AnyNonZero(folded[1].E)
    /\ RelaxedAsEvaluated(folded[1])

\* The cross terms and their commitment as the fold of self and other computes them.
FreshT(self, other) ==
    IF self.impl = "r1cs" THEN r1cs_commit_t(self, other, Rand(rng, 3))
    ELSE circ_commit_t(self, other)
\* The transcript [params, comm_W_self, comm_E_self, u_self, hash_self,
\* comm_W_other, hash_other, comm_T] with a given comm_T, and r squeezed from it.
TranscriptWith(self, other, prm, cT) ==
    <<prm>> \o NativeXyb(self.comm_witness) \o NativeXyb(self.comm_E)
    \o <<self.u, scalar_to_base(self.hash)>> \o NativeXyb(other.comm_witness)
    \o <<scalar_to_base(other.hash)>> \o NativeXyb(cT)
SqueezedFrom(self, terms) ==
    IF self.impl = "r1cs" THEN squeeze_native_field_elements(terms)
    ELSE squeeze_bits(terms)
HashModulus(self) == IF self.impl = "r1cs" THEN Q ELSE R
FoldedAs(self, other, out, ct, r) ==
    /\ out.witness = ZipAddMul(self.witness, other.witness, r)
    /\ out.instance = ZipAddMul(self.instance, other.instance, r)
    /\ out.E = ZipAddMul(self.E, ct.t, r)
    /\ out.u = (self.u + r) % Q
    /\ Val(out.comm_witness) = Val(AddMul(self.comm_witness, other.comm_witness, r))
    /\ Val(out.comm_E) = Val(AddMul(self.comm_E, ct.comm_T, r))
    /\ out.hash = (self.hash + (other.hash * r)) % HashModulus(self)
    /\ Val(out.comm_T) = Val(ct.comm_T)

\* C16: fold(self, other) leaves self with W + r W_other, x + r x_other, E + r T,
\* u + r, comm_W + r comm_W_other, comm_E + r comm_T, hash + r hash_other and stores
\* comm_T, for the T and comm_T computed in this fold and the r squeezed from the
\* transcript that absorbs this comm_T; other is unchanged.
C16_FoldUsesFreshCommT ==
    [][(phase = "operands" /\ phase' = "folded") =>
          /\ latest' = latest
          /\ \E ct \in {FreshT(folded[1], latest)} :
             \E r \in {SqueezedFrom(folded[1],
                          TranscriptWith(folded[1], latest, proof_params(folded), ct.comm_T))} :
                FoldedAs(folded[1], latest, folded'[1], ct, r)]_vars

\* The sum over j < |v| of v[j] * gens[j], as an element of the group.
RECURSIVE PrefixSum(_, _, _)
PrefixSum(gens, v, n) ==
    IF n = 0 THEN 0 ELSE (PrefixSum(gens, v, n - 1) + (v[n] * Val(gens[n]))) % R

\* C17: commit(gens, v) returns the sum over j < |v| of v[j] * gens[j] for every v
\* with |v| <= |gens|, and fails with GeneratorsTooSmall exactly when |v| > |gens|.
C17_CommitIsPrefixSum ==
    phase = "done" =>
        IF Len(latest.scalars) <= Len(latest.generators)
        THEN /\ result.kind = "Ok"
             /\ result.a = PrefixSum(latest.generators, latest.scalars, Len(latest.scalars))
        ELSE result.kind = "GeneratorsTooSmall"

\* C18: after each update latest.output has the length of z0 and is the output of
\* the step circuit of that step; with L = 1, z0 = [1] and f(x) = x^3 + x + 5 it is
\* [7] after the first update(0) and [355] after the second.
C18_LatestOutputIsStepOutput ==
    (phase = "ready" /\ last.by = "update" /\ ~last.panicked /\ argsok /\ tampered = "no") =>
        /\ Len(latest.output) = 1
        /\ latest.output = last.output
        /\ (nslots = 1 /\ z0in = 1 /\ steps = 1) => latest.output = <<7>>
        /\ (nslots = 1 /\ z0in = 1 /\ steps = 2) => latest.output = <<355>>

\* The update being taken is the next one of the run U(0), U(1), U(0), .. with
\* L = 2, and completes.
OnAlternatingRun ==
    /\ nslots = 2 /\ phase = "ready" /\ phase' = "ready" /\ tampered = "no"
    /\ steps' = steps + 1 /\ last'.by = "update"
    /\ \/ steps = 0 /\ last'.new_pc = 0
       \/ steps = 1 /\ last.new_pc = 0 /\ last'.new_pc = 1
       \/ steps = 2 /\ last.slot = 0 /\ last.new_pc = 1 /\ last'.new_pc = 0

\* C19: over the run U(0), U(1), U(0), U(1) with L = 2 every update leaves u of each
\* slot no smaller than it was, and u of the slot folded into, read as an integer
\* in [0, p), strictly larger.
C19_SlotScalarIncreases ==
    [][OnAlternatingRun =>
          /\ \A j \in 1..Len(folded) : folded'[j].u >= folded[j].u
          /\ folded'[last'.slot + 1].u > folded[last'.slot + 1].u]_vars

\* C20: on a run whose updates are all given pc < L, every synthesize call builds a
\* satisfied constraint system: the priming call of R1CS::new does not abort, and
\* each call made by update satisfies every row, with comp_hash equal to
\* latest_hash.
C20_SynthesizeAlwaysSatisfied ==
    /\ ~(phase = "panicked" /\ folded = <<>> /\ steps = 0)
    /\ (last.by = "update" /\ argsok) =>
          /\ last.satisfied
          /\ last.comp_hash = last.latest_hash

\* C21: the two operands of the fold the next update performs have the same shape:
\* latest was synthesized from the step circuit of the slot folded[pc] it will be
\* folded into, right after Proof::new and after every update given pc < L.
C21_FoldOperandsShareShape ==
    (phase = "ready" /\ argsok /\ tampered = "no" /\ pc < Len(folded)) =>
        /\ latest.shape = Slot(folded, pc).shape
        /\ latest.circuit = Slot(folded, pc).circuit

\* An update given pc < L completes.
UpdateCompletes ==
    /\ phase = "ready" /\ phase' = "ready" /\ tampered = "no" /\ argsok'
    /\ steps' = steps + 1 /\ last'.by = "update" /\ ~last'.panicked

\* C22: the first update feeds z0 to the step circuit, and every later update feeds
\* it the output the step circuit produced in the update before, also when the two
\* updates run on different slots.
C22_InputIsPreviousOutput ==
    [][UpdateCompletes =>
          IF steps = 0 THEN last'.input = <<z0in>>
          ELSE last'.input = last.output]_vars

\* The public IO hash of the slot self as the augmented circuit recomputes it at
\* iteration ii and program counter p, with prm in the place of params.
RecomputedHash(self, prm, ii, p) ==
    IF self.impl = "r1cs" THEN r1cs_compute_io_hash(prm, ii, p, hash_terms(self))
    ELSE circ_compute_io_hash(prm, ii, p, z0(self), self.output, self.comm_witness,
                              self.comm_E, self.u, scalar_to_base(self.hash))

\* C23: in the synthesize call of the next update, at i = 1 the hash recomputed in
\* the circuit is taken with 0 in the place of params and equals latest.hash, and
\* at i >= 2 it is taken with the real params.
C23_ParamsZeroedAtFirstStep ==
    (phase = "ready" /\ tampered = "no" /\ argsok /\ pc < Len(folded)) =>
        \E self \in {Slot(folded, pc)}, prm \in {proof_params(folded)} :
        \E syn \in {synthesize(self, prm, latest, pc, 0, i,
                               Rand(StepSeed, 1), Rand(StepSeed, 2))} :
           IF i = 1
           THEN /\ syn.comp_hash = RecomputedHash(self, 0, i, pc)
                /\ syn.comp_hash = scalar_to_base(hash(latest))
           ELSE syn.comp_hash = RecomputedHash(self, prm, i, pc)

\* The last n entries of the sequence t.
LastTerms(t, n) == SubSeq(t, Len(t) - n + 1, Len(t))

\* The entries a public IO hash takes from the commitments W and E, the scalar uu
\* and the hash h.
AccumulatorTerms(W, E, uu, h) == CircuitXyb(W) \o CircuitXyb(E) \o <<uu, h>>

\* C24: a synthesize call on the pair the proof holds hashes into the new public
\* IO, when called with i = 0, the slot's own comm_W, comm_E and u and the hash of
\* latest, and when called with the proof's i (never 0) the folded values.
C24_BaseCaseHashesSlotValues ==
    (phase = "ready" /\ tampered = "no" /\ argsok /\ pc < Len(folded)) =>
        \E self \in {Slot(folded, pc)}, prm \in {proof_params(folded)} :
        \A ii \in {0, i} :
        \E syn \in {synthesize(self, prm, latest, pc, 0, ii,
                               Rand(StepSeed, 1), Rand(StepSeed, 2))} :
           LastTerms(syn.io_terms, 8) =
              IF ii = 0
              THEN AccumulatorTerms(self.comm_witness, self.comm_E, self.u,
                                    scalar_to_base(hash(latest)))
              ELSE AccumulatorTerms(syn.fold.W, syn.fold.E, syn.fold.u, syn.fold.hash)

\* A call of update that returns.
UpdateReturns == phase = "ready" /\ phase' = "ready" /\ steps' = steps + 1

\* C25: an update that returns adds exactly 1 to i, stores its argument as pc,
\* puts the pair synthesized from folded[pc_prev] in the place of latest, and
\* leaves the number of slots and every slot other than folded[pc_prev] as they were.
C25_UpdateFrame ==
    [][UpdateReturns =>
          /\ i' = i + 1
          /\ pc' = last'.new_pc
          /\ latest' = synthesize(Slot(folded, pc), proof_params(folded), latest, pc,
                                  last'.new_pc, i, Rand(StepSeed, 1),
                                  Rand(StepSeed, 2)).new
          /\ Len(folded') = Len(folded)
          /\ \A j \in 1..Len(folded) : j # pc + 1 => folded'[j] = folded[j]]_vars

\* An update with an argument other than the stored pc has returned, in a proof of
\* two slots, and has changed the slot it ran on.
C25_Witness ==
    /\ phase = "ready" /\ nslots = 2 /\ steps >= 1
    /\ last.by = "update" /\ ~last.panicked
    /\ last.new_pc # last.slot /\ pc = last.new_pc /\ i = last.i + 1
    /\ Slot(folded, last.slot).u # 1

\* The answer of the first check that fails, in the order hash, pc range,
\* crossterms of latest, every folded slot satisfied, latest satisfied.
FirstFailingCheck ==
    IF hash(latest) # hash_public_io(folded, i, pc) THEN "HashMismatch"
    ELSE IF pc > Len(folded) THEN "PCOutOfRange"
    ELSE IF has_crossterms(latest) THEN "UnexpectedCrossterms"
    ELSE IF \E j \in 1..Len(folded) : ~is_satisfied(folded[j]) THEN "UnsatisfiedCircuit"
    ELSE IF ~is_satisfied(latest) THEN "UnsatisfiedCircuit"
    ELSE "Ok"

RECURSIVE SumDigests(_, _)
SumDigests(fs, n) == IF n = 0 THEN 0 ELSE (SumDigests(fs, n - 1) + digest(fs[n].shape)) % Q

\* C27: in an update that returns, params is the same value at the synthesize call
\* and at the fold call, it is the sum of the digests of the slots' shapes, and it
\* is the same before and after the update; no slot's shape changes.
C27_ParamsConstant ==
    [][UpdateReturns =>
          /\ last'.params_synth = last'.params_fold
          /\ last'.params_synth = proof_params(folded)
          /\ proof_params(folded') = proof_params(folded)
          /\ proof_params(folded') = SumDigests(folded', Len(folded'))
          /\ \A j \in 1..Len(folded) : folded'[j].shape = folded[j].shape]_vars

\* Two updates have returned in a proof of two slots with params other than 0, the
\* last of them having changed the slot it folded into.
C27_Witness ==
    /\ phase = "ready" /\ nslots = 2 /\ steps >= 2
    /\ last.by = "update" /\ ~last.panicked
    /\ proof_params(folded) # 0
    /\ Slot(folded, last.slot).u # 1
    /\ Slot(folded, last.slot).output # <<z0in>>

\* ------------------------------------------------- SerializableShape over shapes
\* Bounds of the shapes drawn: coefficients 1..MaxCoeff, column indices
\* 0..MaxCol, variable counts 1..MaxVars.
MaxCoeff == 2
MaxCol == 1
MaxVars == 2

\* A shape of one constraint whose matrix m holds the row <<(coeff, col)>> and
\* whose two other matrices hold the row <<(1, 0)>>.
ShapeWith(nw, nx, m, coeff, col) ==
    [num_instance_variables |-> nx, num_witness_variables |-> nw, num_constraints |-> 1,
     a |-> <<IF m = "a" THEN <<<<coeff, col>>>> ELSE <<<<1, 0>>>>>>,
     b |-> <<IF m = "b" THEN <<<<coeff, col>>>> ELSE <<<<1, 0>>>>>>,
     c |-> <<IF m = "c" THEN <<<<coeff, col>>>> ELSE <<<<1, 0>>>>>>]
Shapes ==
    {ShapeWith(nw, nx, m, coeff, col) :
        nw \in 1..MaxVars, nx \in 1..MaxVars, m \in {"a", "b", "c"},
        coeff \in 1..MaxCoeff, col \in 0..MaxCol}

\* folded holds two shapes.
InitShape ==
    /\ impl = "r1cs"
    /\ nslots = 2
    /\ z0in = 1
    /\ rng = 1
    /\ phase = "shapes"
    /\ \E s1 \in Shapes, s2 \in Shapes : folded = <<[shape |-> s1], [shape |-> s2]>>
    /\ latest = NoPair
    /\ pc = 0
    /\ i = 0
    /\ result = NoResult
    /\ steps = 0
    /\ last = NoLast
    /\ argsok = TRUE
    /\ tampered = "no"

\* SerializableShape::from and serialize_compressed applied to both shapes.
Serialize ==
    /\ phase = "shapes"
    /\ result' = [kind |-> "Ok", a |-> serialize_compressed(folded[1].shape),
                  b |-> serialize_compressed(folded[2].shape)]
    /\ phase' = "serialized"
    /\ UNCHANGED <<impl, nslots, z0in, rng, folded, latest, pc, i, steps, last, argsok,
                   tampered>>

NextShape == Serialize

SpecShape == InitShape /\ [][NextShape]_vars

\* C28: two shapes that differ in n_w, n_x or in any entry (column index or
\* coefficient) of A, B or C have different serializations.
C28_SerializationDeterminesShape ==
    (phase = "serialized" /\ folded[1].shape # folded[2].shape) => result.a # result.b

\* ------------------------------------------------- constraint_system.rs
\* ProvingAssignment: the lists a, b, c of linear combinations and the two
\* assignments.  A variable is an index into one of the assignments; a linear
\* combination is a list of (variable, coeff).
MaxCalls == 3

Aux(k) == [kind |-> "Aux", idx |-> k]
Input(k) == [kind |-> "Input", idx |-> k]
LCs == {<<>>, <<<<Input(0), 1>>>>, <<<<Aux(0), 1>>, <<Input(0), 2>>>>}

\* #[derive(Default)]: every list empty.
ProvingAssignment_default ==
    [a |-> <<>>, b |-> <<>>, c |-> <<>>, input_assignment |-> <<>>, aux_assignment |-> <<>>]

\* The calls made so far: successful alloc, successful alloc_input, enforce.
NoCalls == [by |-> "none", allocs |-> 0, inputs |-> 0, enforces |-> 0]

\* alloc: f()? first, then the push; the variable returned is Aux(len - 1).
alloc(pa, v) == [pa EXCEPT !.aux_assignment = Append(@, v)]
\* The index one past the value pushed.
alloc_index_len(pa) == Len(pa.aux_assignment)
alloc_index(pa) == Len(pa.aux_assignment) - 1
\* alloc_input: the same over input_assignment.
alloc_input(pa, v) == [pa EXCEPT !.input_assignment = Append(@, v)]
alloc_input_index(pa) == Len(pa.input_assignment) - 1
\* enforce: one push to each of a, b, c.
enforce(pa, la, lb, lc) ==
    [pa EXCEPT !.a = Append(@, la), !.b = Append(@, lb), !.c = Append(@, lc)]

\* eval_matrix of create_circuit: per linear combination the coefficients of the
\* Aux variables, then those of the Input variables.
RECURSIVE CoeffsOf(_, _)
CoeffsOf(lc, kind) ==
    IF lc = <<>> THEN <<>>
    ELSE (IF Head(lc)[1].kind = kind THEN <<Head(lc)[2]>> ELSE <<>>)
         \o CoeffsOf(Tail(lc), kind)
eval_matrix(m) == [k \in 1..Len(m) |-> CoeffsOf(m[k], "Aux") \o CoeffsOf(m[k], "Input")]

\* What multiply_vec and cz[cz.len() - 1] may yield: a panic or a scalar.
OutputResults ==
    {[panics |-> TRUE, value |-> 0]} \cup {[panics |-> FALSE, value |-> v] : v \in 0..MaxV}

\* create_circuit with the whole input assignment as the instance.
cs_create_circuit_whole_input(pa, generators, out) ==
    [shape |-> [num_vars |-> Len(pa.aux_assignment),
                num_public_inputs |-> Len(pa.input_assignment),
                A |-> eval_matrix(pa.a), B |-> eval_matrix(pa.b), C |-> eval_matrix(pa.c)],
     generators |-> generators,
     comm_witness |-> commit(generators, pa.aux_assignment),
     comm_E |-> Identity,
     E |-> [k \in 1..Len(pa.a) |-> 0],
     witness |-> pa.aux_assignment,
     instance |-> pa.input_assignment,
     u |-> 1,
     output |-> out.value]
\* create_circuit: input_assignment[1..] panics on an empty input assignment, and
\* commit panics unless there are as many generators as auxiliary values.
cs_create_circuit_ok(pa, generators, out) ==
    /\ Len(pa.input_assignment) >= 1
    /\ ~out.panics
    /\ commit_ok(generators, pa.aux_assignment)
cs_create_circuit(pa, generators, out) ==
    [shape |-> [num_vars |-> Len(pa.aux_assignment),
                num_public_inputs |-> Len(pa.input_assignment),
                A |-> eval_matrix(pa.a), B |-> eval_matrix(pa.b), C |-> eval_matrix(pa.c)],
     generators |-> generators,
     comm_witness |-> commit(generators, pa.aux_assignment),
     comm_E |-> Identity,
     E |-> [k \in 1..Len(pa.a) |-> 0],
     witness |-> pa.aux_assignment,
     instance |-> Tail(pa.input_assignment),
     u |-> 1,
     output |-> out.value]

\* latest holds the ProvingAssignment, last the calls made, result what the last
\* call returned, folded the circuit created.
InitCS ==
    /\ impl = "r1cs"
    /\ nslots = 1
    /\ z0in = 1
    /\ rng = 1
    /\ phase = "assigning"
    /\ folded = <<>>
    /\ latest = ProvingAssignment_default
    /\ pc = 0
    /\ i = 0
    /\ result = NoResult
    /\ steps = 0
    /\ last = NoCalls
    /\ argsok = TRUE
    /\ tampered = "no"

\* alloc with a closure that yields v (ok) or an error.
Alloc(v, ok) ==
    /\ phase = "assigning" /\ steps < MaxCalls
    /\ IF ok
       THEN /\ latest' = alloc(latest, v)
            /\ result' = [kind |-> "Aux", a |-> alloc_index(latest'), b |-> v]
            /\ last' = [last EXCEPT !.by = "alloc", !.allocs = @ + 1]
       ELSE /\ result' = Err("SynthesisError")
            /\ last' = [last EXCEPT !.by = "alloc"]
            /\ UNCHANGED latest
    /\ steps' = steps + 1
    /\ UNCHANGED <<impl, nslots, z0in, rng, phase, folded, pc, i, argsok, tampered>>

AllocInput(v, ok) ==
    /\ phase = "assigning" /\ steps < MaxCalls
    /\ IF ok
       THEN /\ latest' = alloc_input(latest, v)
            /\ result' = [kind |-> "Input", a |-> alloc_input_index(latest'), b |-> v]
            /\ last' = [last EXCEPT !.by = "alloc_input", !.inputs = @ + 1]
       ELSE /\ result' = Err("SynthesisError")
            /\ last' = [last EXCEPT !.by = "alloc_input"]
            /\ UNCHANGED latest
    /\ steps' = steps + 1
    /\ UNCHANGED <<impl, nslots, z0in, rng, phase, folded, pc, i, argsok, tampered>>

Enforce(la, lb, lc) ==
    /\ phase = "assigning" /\ steps < MaxCalls
    /\ latest' = enforce(latest, la, lb, lc)
    /\ result' = [kind |-> "Unit", a |-> 0, b |-> 0]
    /\ last' = [last EXCEPT !.by = "enforce", !.enforces = @ + 1]
    /\ steps' = steps + 1
    /\ UNCHANGED <<impl, nslots, z0in, rng, phase, folded, pc, i, argsok, tampered>>

\* create_circuit(&self, generators) with n generators.
CreateCircuit(n, out) ==
    /\ phase = "assigning"
    /\ \E generators \in {[j \in 1..n |-> Gen(j)]} :
       IF cs_create_circuit_ok(latest, generators, out)
       THEN /\ folded' = <<cs_create_circuit(latest, generators, out)>>
            /\ phase' = "created"
            /\ result' = [kind |-> "R1CS", a |-> 0, b |-> 0]
       ELSE /\ phase' = "panicked"
            /\ result' = Panic
            /\ UNCHANGED folded
    /\ last' = [last EXCEPT !.by = "create_circuit"]
    /\ UNCHANGED <<impl, nslots, z0in, rng, latest, pc, i, steps, argsok, tampered>>

NextCS ==
    \/ \E v \in 1..MaxV, ok \in BOOLEAN : Alloc(v, ok)
    \/ \E v \in 1..MaxV, ok \in BOOLEAN : AllocInput(v, ok)
    \/ \E la \in LCs, lc \in LCs : Enforce(la, <<<<Input(0), 1>>>>, lc)
    \/ \E n \in 0..MaxGens, out \in OutputResults : CreateCircuit(n, out)

SpecCS == InitCS /\ [][NextCS]_vars

\* C29: in every state of a ProvingAssignment the lists a, b and c have the same
\* length, the number of enforce calls made, and the two assignments hold one
\* value per successful alloc / alloc_input; every enforce call appends its three
\* linear combinations as the last row; and the k-th successful alloc /
\* alloc_input returns the index k - 1, at which the value it was given is stored.
C29_AssignmentBookkeeping ==
    /\ [](phase = "assigning" =>
            /\ Len(latest.a) = last.enforces
            /\ Len(latest.b) = last.enforces
            /\ Len(latest.c) = last.enforces
            /\ Len(latest.aux_assignment) = last.allocs
            /\ Len(latest.input_assignment) = last.inputs)
    /\ [][(phase = "assigning" /\ phase' = "assigning") =>
            /\ result'.kind = "Aux" =>
                  /\ result'.a = last'.allocs - 1
                  /\ latest'.aux_assignment[result'.a + 1] = result'.b
                  /\ SubSeq(latest'.aux_assignment, 1, result'.a) = latest.aux_assignment
            /\ result'.kind = "Input" =>
                  /\ result'.a = last'.inputs - 1
                  /\ latest'.input_assignment[result'.a + 1] = result'.b
                  /\ SubSeq(latest'.input_assignment, 1, result'.a) = latest.input_assignment
            /\ result'.kind = "Unit" =>
                  /\ SubSeq(latest'.a, 1, Len(latest.a)) = latest.a
                  /\ SubSeq(latest'.b, 1, Len(latest.b)) = latest.b
                  /\ SubSeq(latest'.c, 1, Len(latest.c)) = latest.c
                  /\ Len(latest'.a) = Len(latest.a) + 1]_vars

\* A second alloc has returned index 1, after one enforce call.
C29_Witness ==
    /\ phase = "assigning" /\ steps = MaxCalls
    /\ result.kind = "Aux" /\ result.a = 1
    /\ last.allocs = 2 /\ last.enforces = 1
    /\ Len(latest.a) = 1

\* The circuit created has u = 1, E all zero with one entry per enforce call, and
\* as many witness values as the shape's witness count.
CreatedBasics ==
    \E r \in {folded[1]} :
       /\ r.u = 1
       /\ Len(r.E) = last.enforces
       /\ \A k \in 1..Len(r.E) : r.E[k] = 0
       /\ Len(r.witness) = r.shape.num_vars

====
